---- MODULE Spec2Model ----
(***************************************************************************)
(* A model of schedalgen: the bounded elite archive (FameHall), the        *)
(* schedule codec (ScheduleProblem), the constraint evaluator (Benchmark)  *)
(* and the variation operators of the genetic engine (PureSolution).       *)
(*                                                                         *)
(* Python lists and strings are sequences; a Python index i is the         *)
(* sequence index i + 1.  A bit string is a sequence over {0, 1}.          *)
(* An Individual is the pair <<value, cost>>.                              *)
(***************************************************************************)
EXTENDS Integers, Sequences, FiniteSets, TLC

VARIABLES
    fame_hall,      \* FameHall: [size, members, best]
    hall_log,       \* history of the archive: [lowest, front, middle, evicted]
    problem,        \* ScheduleProblem: the constructor's arguments and attributes
    codec,          \* a codec call: [call, arg, class_tuple, strings, table]
    solution,       \* PureSolution: [cross_indep_proba, mut_indep_proba,
                    \*                _mut_range_step]
    vary,           \* a variation call: [call, individs, draws, result]
    benchmark,      \* Benchmark: [hard_penalty, soft_penalty,
                    \*             classes_preference, adder, _cond_checker]
    evaluation,     \* calculate_cost mapped over values: [call, values, costs]
    construction,   \* a ScheduleProblem(...) call: [args, outcome]
    insertion,      \* a FameHall.insert call: [call, individ, before]
    engine,         \* perform_algorithm's locals: [gen, population,
                    \*   offspring, parts, evaluated, log, ...]
    pc,             \* the position of perform_algorithm in its loop
    threads         \* two calculate_cost calls on one evaluator:
                    \*   [pc, value, cost] each

hallVars == <<fame_hall, hall_log>>
codecVars == <<problem, codec>>
varyVars == <<solution, vary>>
costVars == <<benchmark, evaluation>>
insertVars == <<insertion>>
engineVars == <<engine>>
pcVars == <<pc>>
threadVars == <<threads>>
vars == <<fame_hall, hall_log, problem, codec, solution, vary, benchmark,
          evaluation, construction, insertion, engine, pc, threads>>

(***************************************************************************)
(* Bounds of the model.                                                    *)
(***************************************************************************)
MaxCost == 4
MaxPopulation == 2
MaxHallSize == 3
MaxStringLen == 5
MaxDim == 2
MaxCodecLen == 32
MaxOnes == 1
MaxCrossLen == 3
MaxClasses == 4
ProbaScale == 2
MaxCostLen == 8
MaxLimitLen == 12
MaxPenalty == 2
MaxInitGroups == 9
MaxCourses == 3
MaxDirections == 10
MaxClassroomNum == 4
MaxClassroomsLen == 2

(***************************************************************************)
(* Python helpers.                                                         *)
(***************************************************************************)
\* list[a:b] for 0 <= a, with Python's clipping of the upper end
Slice(list, a, b) ==
    LET hi == IF b > Len(list) THEN Len(list) ELSE b
    IN  IF a >= hi THEN <<>> ELSE SubSeq(list, a + 1, hi)

\* list[a:b] with Python's reading of a negative bound
PySlice(list, a, b) ==
    Slice(list, IF a < 0 THEN (IF a + Len(list) < 0 THEN 0 ELSE a + Len(list))
                ELSE a,
                IF b < 0 THEN (IF b + Len(list) < 0 THEN 0 ELSE b + Len(list))
                ELSE b)

\* range(a, b) as a tuple
Range(a, b) == [j \in 1 .. (IF b > a THEN b - a ELSE 0) |-> a + j - 1]

\* the elements of a tuple
Elems(list) == {list[j] : j \in DOMAIN list}

\* list.insert(idx, x) for 0 <= idx <= len(list)
ListInsert(list, idx, x) ==
    Slice(list, 0, idx) \o <<x>> \o Slice(list, idx, Len(list))

\* del list[-1]
DelLast(list) == SubSeq(list, 1, Len(list) - 1)

\* key_func = lambda ind: ind[1]
key_func(ind) == ind[2]

\* one step of a stable insertion of x into a list sorted by key_func
RECURSIVE SortedInsert(_, _)
SortedInsert(sorted, x) ==
    IF sorted = <<>> THEN <<x>>
    ELSE IF key_func(sorted[Len(sorted)]) <= key_func(x)
         THEN Append(sorted, x)
         ELSE Append(SortedInsert(DelLast(sorted), x), sorted[Len(sorted)])

\* population.sort(key=key_func): stable, ascending
RECURSIVE SortPopulation(_)
SortPopulation(population) ==
    IF population = <<>> THEN <<>>
    ELSE SortedInsert(SortPopulation(DelLast(population)),
                      population[Len(population)])

(***************************************************************************)
(* FameHall                                                                *)
(***************************************************************************)
\* the individual has not been assigned yet (FameHall.best before an update)
Unset == <<>>

\* FameHall.__init__
NewFameHall(size) == [size |-> size, members |-> <<>>, best |-> Unset]

\* the branch of insert taken when left_cost > ins_cost
InsertFront_keeps_best(hall, i_off, to_insert) ==
    [hall EXCEPT !.members = ListInsert(@, i_off, to_insert)]

InsertFront(hall, i_off, to_insert) ==
    [hall EXCEPT !.members = ListInsert(@, i_off, to_insert),
                 !.best = to_insert]

\* the position the front branch of insert inserts at
FrontPos_right(i) == i

FrontPos(i) == i - 1

\* FameHall.insert: the loop body for index i and the rest of the loop
RECURSIVE InsertScan(_, _, _)
InsertScan(hall, to_insert, i) ==
    IF i >= Len(hall.members) THEN hall
    ELSE LET i_off == FrontPos(i)
             left_cost == hall.members[i][2]
             right_cost == hall.members[i + 1][2]
             ins_cost == to_insert[2]
         IN  IF left_cost > ins_cost
             THEN InsertFront(hall, i_off, to_insert)
             ELSE IF left_cost < ins_cost /\ right_cost > ins_cost
             THEN [hall EXCEPT !.members = ListInsert(@, i, to_insert)]
             ELSE IF left_cost = ins_cost \/ right_cost = ins_cost
             THEN hall
             ELSE InsertScan(hall, to_insert, i + 1)

\* FameHall.insert
insert(hall, individ) == InsertScan(hall, individ, 1)

\* the tail removal of update's loop body
RemoveTail_never(hall) == hall

RemoveTail(hall) ==
    IF Len(hall.members) > hall.size
    THEN [hall EXCEPT !.members = DelLast(@)]
    ELSE hall

\* the first half of update's loop body: insert while there is room
InsertIfRoom(hall, ind) ==
    IF Len(hall.members) <= hall.size THEN insert(hall, ind) ELSE hall

\* a seeding that does not look at the archive
Seed_every_call(hall, population) ==
    [hall EXCEPT !.members = @ \o Slice(population, 0, hall.size),
                 !.best = population[1]]

\* update's seeding of an empty archive
Seed(hall, population) ==
    IF Len(hall.members) < 1
    THEN [hall EXCEPT !.members = @ \o Slice(population, 0, hall.size),
                      !.best = population[1]]
    ELSE hall

\* the history after a tuple of costs was inserted into the archive
Inserted(log, costs) ==
    IF costs = <<>> THEN log
    ELSE [log EXCEPT !.lowest =
            LET m == CHOOSE c \in Elems(costs) : \A d \in Elems(costs) : c <= d
            IN  IF @ = <<>> \/ m < @[1] THEN <<m>> ELSE @]

\* update's loop over the sorted population, with the history of its steps
RECURSIVE UpdateLoop(_, _, _)
UpdateLoop(st, population, k) ==
    IF k > Len(population) THEN st
    ELSE LET ind == population[k]
             mid == InsertIfRoom(st.hall, ind)
             next == RemoveTail(mid)
             grew == Len(mid.members) > Len(st.hall.members)
             front == grew /\ mid.members[1] = ind
             log == [Inserted(st.log, IF grew THEN <<ind[2]>> ELSE <<>>) EXCEPT
                       !.front = @ \/ front,
                       !.middle = @ \/ (grew /\ ~front),
                       !.evicted = @ \/ Len(next.members) < Len(mid.members)]
         IN  UpdateLoop([hall |-> next, log |-> log], population, k + 1)

\* FameHall.update
update(hall, log, population) ==
    LET sorted == SortPopulation(population)
        seeded == Seed(hall, sorted)
        log1 == IF Len(hall.members) < 1
                THEN Inserted(log, [j \in DOMAIN seeded.members |->
                                        seeded.members[j][2]])
                ELSE log
    IN  UpdateLoop([hall |-> seeded, log |-> log1], sorted, 1)

(***************************************************************************)
(* ScheduleProblem                                                         *)
(***************************************************************************)
\* "0 for lecture and 1 for practice"
lecture_int_code == 0
practice_int_code == 1

\* __set_classrooms_attrs with lecture_classrooms = practice_classrooms = None
default_lecture_classrooms(total_classrooms) ==
    Range(1, (total_classrooms + 1) \div 2)

default_practice_classrooms(total_classrooms) ==
    Range((total_classrooms + 1) \div 2, total_classrooms + 1)

\* __set_wrapper_attrs
wrap_groups_every_chars(a) ==
    a.total_string_len * a.classes_per_day * a.days_per_week * a.weeks_per_group

wrap_weeks_every_chars(a) == wrap_groups_every_chars(a) \div a.weeks_per_group

wrap_days_every_chars_by_classes(a) ==
    wrap_weeks_every_chars(a) \div a.classes_per_day

wrap_days_every_chars(a) == wrap_weeks_every_chars(a) \div a.days_per_week

wrap_classes_every_chars(a) == wrap_days_every_chars(a) \div a.classes_per_day

\* __set_additional_attrs
total_schedules_len(a) ==
    a.total_string_len * a.classes_per_day * a.days_per_week
        * a.weeks_per_group * a.total_groups

classes_per_group(a) == a.classes_per_day * a.days_per_week * a.weeks_per_group

\* the conditions of validate_problem_initializer, in the order they are raised
chars_length_cond(p) ==
    p.classroom_char
        + (IF p.teacher_char - p.classroom_char # 0
           THEN p.teacher_char - p.classroom_char ELSE p.teacher_char)
        + (p.type_char - p.teacher_char)
        + 1
        # p.total_string_len

chars_indicies_cond(p) ==
    ~(p.classroom_char <= p.teacher_char /\ p.teacher_char <= p.type_char)

classrooms_cond(p) ==
    \/ Len(p.lecture_classrooms) + Len(p.practice_classrooms) # p.total_classrooms
    \/ Elems(p.lecture_classrooms) \cap Elems(p.practice_classrooms) # {}

days_per_week_cond(p) == p.days_per_week < 1 \/ p.days_per_week > 7

clases_per_day_cond(p) == p.classes_per_day < 0 \/ p.classes_per_day > 8

courses_directions_cond(p) ==
    \/ (p.total_groups + 1) % p.courses # 0
    \/ ((p.total_groups + 1) % p.courses) % p.directions # 0

\* validate_problem_initializer: the message of the ValueError raised, or "ok"
validate_problem_initializer(p) ==
    IF chars_length_cond(p)
    THEN "chars specified are not compatable with the string length"
    ELSE IF chars_indicies_cond(p) THEN "char indicies specified incorrectly"
    ELSE IF classrooms_cond(p) THEN "classrooms specified incorrectly"
    ELSE IF days_per_week_cond(p) THEN "incorrect range of days per week"
    ELSE IF clases_per_day_cond(p) THEN "incorrect range of classes per day"
    ELSE IF courses_directions_cond(p)
    THEN "courses or directions specified are not compatable with total groups number"
    ELSE "ok"

\* __set_groups_splitting_attrs for positive courses and directions: the
\* exception it raises, or "ok".  range() raises ValueError for a step of 0;
\* the i-th range of groups goes to the list of course i // 8, of which
\* there are only `courses`
groups_splitting_error(a) ==
    LET groups_per_course == (a.total_groups + 1) \div a.courses
        groups_per_direction == groups_per_course \div a.directions
        n_ranges == (a.total_groups + groups_per_direction - 1)
                    \div groups_per_direction
    IN  IF groups_per_course = 0 \/ groups_per_direction = 0
        THEN "ValueError"
        ELSE IF n_ranges >= 1 /\ (n_ranges - 1) \div 8 >= a.courses
        THEN "IndexError"
        ELSE "ok"

\* ScheduleProblem.__init__ for the arguments a; the classroom ranges are at
\* their default unless a has them.  `error` is "ok", or the exception that
\* ends the construction: that of __set_groups_splitting_attrs, or the
\* message of the ValueError of the validation
ScheduleProblem(a) ==
    LET total_classrooms == 2 ^ a.classroom_char - 1
        p == [total_string_len |-> a.total_string_len,
              classroom_char |-> a.classroom_char,
              teacher_char |-> a.teacher_char,
              type_char |-> a.type_char,
              total_classrooms |-> total_classrooms,
              total_groups |-> a.total_groups,
              lecture_classrooms |->
                  IF "lecture_classrooms" \in DOMAIN a
                  THEN a.lecture_classrooms
                  ELSE default_lecture_classrooms(total_classrooms),
              practice_classrooms |->
                  IF "practice_classrooms" \in DOMAIN a
                  THEN a.practice_classrooms
                  ELSE default_practice_classrooms(total_classrooms),
              courses |-> a.courses,
              directions |-> a.directions,
              groups_per_lecture |-> a.groups_per_lecture,
              groups_per_practice |-> a.groups_per_practice,
              classes_per_day |-> a.classes_per_day,
              days_per_week |-> a.days_per_week,
              weeks_per_group |-> a.weeks_per_group,
              total_schedules_len |-> total_schedules_len(a),
              classes_per_group |-> classes_per_group(a),
              wrap_groups_every_chars |-> wrap_groups_every_chars(a),
              wrap_weeks_every_chars |-> wrap_weeks_every_chars(a),
              wrap_days_every_chars |-> wrap_days_every_chars(a),
              wrap_classes_every_chars |-> wrap_classes_every_chars(a)]
    IN  [attrs |-> p,
         error |-> IF groups_splitting_error(a) # "ok"
                   THEN groups_splitting_error(a)
                   ELSE validate_problem_initializer(p)]

\* int(bits, 2) of a non-empty bit string
RECURSIVE int2(_)
int2(bits) ==
    IF bits = <<>> THEN 0
    ELSE 2 * int2(DelLast(bits)) + bits[Len(bits)]

\* format_binary(num, n_bits) for 0 <= num < 2 ^ n_bits
RECURSIVE format_binary(_, _)
format_binary(num, n_bits) ==
    IF n_bits = 0 THEN <<>>
    ELSE Append(format_binary(num \div 2, n_bits - 1), num % 2)

\* the three slices decode_string parses
classroom_bits(p, class_string) == PySlice(class_string, 0, p.classroom_char)

teacher_bits_to_bound(p, class_string) ==
    PySlice(class_string, p.classroom_char, p.teacher_char)

teacher_bits(p, class_string) ==
    PySlice(class_string, p.classroom_char, p.teacher_char - 1)

type_bits(p, class_string) ==
    PySlice(class_string, p.type_char, Len(class_string))

\* int() raises ValueError on an empty slice
decode_raises(p, class_string) ==
    \/ classroom_bits(p, class_string) = <<>>
    \/ teacher_bits(p, class_string) = <<>>
    \/ type_bits(p, class_string) = <<>>

\* decode_string: the class tuple (classroom, teacher, class_type)
decode_string(p, class_string) ==
    <<int2(classroom_bits(p, class_string)),
      int2(teacher_bits(p, class_string)),
      int2(type_bits(p, class_string))>>

\* textwrap.wrap(text, width) of a text without white space, width >= 1
RECURSIVE wrap(_, _)
wrap(text, width) ==
    IF text = <<>> THEN <<>>
    ELSE <<Slice(text, 0, width)>> \o wrap(Slice(text, width, Len(text)), width)

\* wrap_dict: the values of the dict, in key order "<key_name>-1", ...
wrap_dict(to_wrap, wrap_every_chars, strings_num) ==
    Slice(wrap(to_wrap, wrap_every_chars), 0, strings_num)

\* wrap_dict_cycle
wrap_dict_cycle(dict_to_wrap, wrap_every_chars, items_num) ==
    [k \in DOMAIN dict_to_wrap |->
        wrap_dict(dict_to_wrap[k], wrap_every_chars, items_num)]

\* _wrap_schedules_table up to the decoding of the leaves:
\* group -> week -> day -> class -> class string
wrapped_strings(p, total_schedules) ==
    LET groups == wrap_dict(total_schedules, p.wrap_groups_every_chars,
                            p.total_groups)
        weeks == wrap_dict_cycle(groups, p.wrap_weeks_every_chars,
                                 p.weeks_per_group)
        days == [g \in DOMAIN weeks |->
                    wrap_dict_cycle(weeks[g], p.wrap_days_every_chars,
                                    p.days_per_week)]
    IN  [g \in DOMAIN days |->
            [w \in DOMAIN days[g] |->
                wrap_dict_cycle(days[g][w], p.wrap_classes_every_chars,
                                p.classes_per_day)]]

\* _wrap_dict_classes over every day: each leaf replaced by its decoding
_wrap_schedules_table(p, total_schedules) ==
    LET t == wrapped_strings(p, total_schedules)
    IN  [g \in DOMAIN t |-> [w \in DOMAIN t[g] |-> [d \in DOMAIN t[g][w] |->
            [c \in DOMAIN t[g][w][d] |-> decode_string(p, t[g][w][d][c])]]]]

(***************************************************************************)
(* The values of the variables a specification does not use.               *)
(***************************************************************************)
\* lowest: the lowest cost ever inserted, <<>> before the first insertion;
\* front, middle: insert has taken its front / its middle branch;
\* evicted: a tail member was removed
NoHistory == [lowest |-> <<>>, front |-> FALSE, middle |-> FALSE,
              evicted |-> FALSE]
NoCall == [call |-> "none", arg |-> <<>>, class_tuple |-> <<>>,
           strings |-> <<>>, table |-> <<>>]
NoProblem == [error |-> "not constructed"]

IdleHall == fame_hall = NewFameHall(0) /\ hall_log = NoHistory
IdleCodec == problem = NoProblem /\ codec = NoCall

NoSolution == [error |-> "not constructed"]
NoVariation == [call |-> "none", individs |-> <<>>, draws |-> <<>>,
                result |-> <<>>]
IdleVary == solution = NoSolution /\ vary = NoVariation

NoBenchmark == [error |-> "not constructed"]
NoEvaluation == [call |-> "none", values |-> <<>>, costs |-> <<>>]
IdleCost == benchmark = NoBenchmark /\ evaluation = NoEvaluation

NoConstruction == [args |-> <<>>, outcome |-> "none"]
IdleInit == construction = NoConstruction

NoInsertion == [call |-> "none", individ |-> <<>>, before |-> <<>>]
IdleInsert == insertion = NoInsertion

NoEngine == [gen |-> 0]
IdleEngine == engine = NoEngine

NoPosition == "none"
IdlePc == pc = NoPosition

NoThreads == <<>>
IdleThreads == threads = NoThreads

(***************************************************************************)
(* The archive under any sequence of update calls.                         *)
(***************************************************************************)
\* the candidates: one individual of every cost, and a second, different
\* individual of cost 1, so that different individuals tie
HallIndividuals ==
    {<<<<0>>, c>> : c \in 0 .. MaxCost} \cup {<<<<1>>, 1>>}

RECURSIVE SeqsUpTo(_, _)
SeqsUpTo(S, n) ==
    IF n = 0 THEN {<<>>}
    ELSE LET shorter == SeqsUpTo(S, n - 1)
         IN  shorter \cup {Append(s, x) : s \in shorter, x \in S}

Populations == SeqsUpTo(HallIndividuals, MaxPopulation) \ {<<>>}

InitHall ==
    /\ \E size \in 0 .. MaxHallSize : fame_hall = NewFameHall(size)
    /\ hall_log = NoHistory
    /\ IdleCodec
    /\ IdleVary
    /\ IdleCost
    /\ IdleInit
    /\ IdleThreads
    /\ IdlePc
    /\ IdleEngine
    /\ IdleInsert

Update ==
    \E population \in Populations :
        LET r == update(fame_hall, hall_log, population)
        IN  /\ fame_hall' = r.hall
            /\ hall_log' = r.log
            /\ UNCHANGED <<codecVars, varyVars, costVars, construction,
                           insertVars, engineVars, pcVars, threadVars>>

NextHall == Update

SpecHall == InitHall /\ [][NextHall]_vars

\* C1: after any sequence of update calls the archive holds at most `size`
\* members, whatever the capacity and the candidate populations.
C1_SizeNeverExceedsCapacity ==
    Len(fame_hall.members) <= fame_hall.size

\* a full archive from which an insertion has evicted the tail member
C1_Witness ==
    /\ fame_hall.size >= 2
    /\ Len(fame_hall.members) = fame_hall.size
    /\ hall_log.evicted

\* C2: after any sequence of update calls every adjacent pair of members is
\* in ascending order of cost.
C2_MembersSortedByCost ==
    \A j \in 1 .. Len(fame_hall.members) - 1 :
        fame_hall.members[j][2] <= fame_hall.members[j + 1][2]

\* an archive that took insertions at the front and between two members
C2_Witness ==
    /\ Len(fame_hall.members) >= 3
    /\ hall_log.front
    /\ hall_log.middle

\* C3: once anything was inserted, `best` is the first member and its cost
\* is the lowest cost ever inserted into the archive.
C3_BestIsMinimumInserted ==
    hall_log.lowest # <<>> =>
        /\ fame_hall.best = fame_hall.members[1]
        /\ fame_hall.best[2] = hall_log.lowest[1]

\* `best` was replaced by a cheaper candidate inserted at the front
C3_Witness ==
    /\ hall_log.front
    /\ fame_hall.best = fame_hall.members[1]
    /\ fame_hall.best[2] = hall_log.lowest[1]
    /\ fame_hall.members[Len(fame_hall.members)][2] > fame_hall.best[2]

(***************************************************************************)
(* The codec of a constructed problem: decode_string on the class strings  *)
(* create_random_schedule draws, _wrap_schedules_table on bit strings of   *)
(* the configured length.                                                  *)
(***************************************************************************)
\* the bit strings of length n with at most k ones
RECURSIVE BitStrings(_, _)
BitStrings(n, k) ==
    IF n = 0 THEN {<<>>}
    ELSE {Append(b, 0) : b \in BitStrings(n - 1, k)}
         \cup (IF k = 0 THEN {}
               ELSE {Append(b, 1) : b \in BitStrings(n - 1, k - 1)})

\* constructor arguments: every bit layout up to MaxStringLen, every table
\* shape up to MaxDim whose individuals have at most MaxCodecLen bits
CodecArgs ==
    {a \in [total_string_len : 1 .. MaxStringLen,
            classroom_char : 0 .. MaxStringLen,
            teacher_char : 0 .. MaxStringLen,
            type_char : 0 .. MaxStringLen,
            total_groups : 1 .. MaxDim,
            courses : {1},
            directions : {1},
            groups_per_lecture : {4},
            groups_per_practice : {2},
            classes_per_day : 1 .. MaxDim,
            days_per_week : 1 .. MaxDim,
            weeks_per_group : 1 .. MaxDim] :
        total_schedules_len(a) <= MaxCodecLen}

\* the problems whose construction succeeds
Constructed(args) ==
    {ScheduleProblem(a).attrs : a \in {b \in args : ScheduleProblem(b).error = "ok"}}

\* create_random_schedule: one class string is format_binary(getrandbits(n), n)
RandomClassStrings(n) == {format_binary(num, n) : num \in 0 .. 2 ^ n - 1}

\* the argument of the call is drawn at the start: any class string, or a bit
\* string of the configured length with at most MaxOnes ones
InitCodec ==
    /\ problem \in Constructed(CodecArgs)
    /\ \E arg \in RandomClassStrings(problem.total_string_len)
                  \cup BitStrings(problem.total_schedules_len, MaxOnes) :
        codec = [NoCall EXCEPT !.arg = arg]
    /\ IdleHall
    /\ IdleVary
    /\ IdleCost
    /\ IdleInit
    /\ IdleThreads
    /\ IdlePc
    /\ IdleEngine
    /\ IdleInsert

\* decode_string on a class string
DecodeString ==
    /\ codec.call = "none"
    /\ Len(codec.arg) = problem.total_string_len
    /\ codec' =
         IF decode_raises(problem, codec.arg)
         THEN [codec EXCEPT !.call = "ValueError"]
         ELSE [codec EXCEPT !.call = "decode_string",
                            !.class_tuple = decode_string(problem, codec.arg)]
    /\ UNCHANGED <<problem, hallVars, varyVars, costVars, construction,
                   insertVars, engineVars, pcVars, threadVars>>

\* _wrap_schedules_table on a bit string of the configured length
WrapSchedulesTable ==
    /\ codec.call = "none"
    /\ Len(codec.arg) = problem.total_schedules_len
    /\ codec' =
         IF decode_raises(problem,
                          Slice(codec.arg, 0, problem.total_string_len))
         THEN [codec EXCEPT !.call = "ValueError"]
         ELSE [codec EXCEPT !.call = "_wrap_schedules_table",
                            !.strings = wrapped_strings(problem, codec.arg),
                            !.table = _wrap_schedules_table(problem, codec.arg)]
    /\ UNCHANGED <<problem, hallVars, varyVars, costVars, construction,
                   insertVars, engineVars, pcVars, threadVars>>

NextCodec == DecodeString \/ WrapSchedulesTable

SpecCodec == InitCodec /\ [][NextCodec]_vars

\* the concatenation of a tuple of bit strings
RECURSIVE Concat(_)
Concat(strings) ==
    IF strings = <<>> THEN <<>>
    ELSE Concat(DelLast(strings)) \o strings[Len(strings)]

\* the leaves of a group -> week -> day -> class table, in traversal order
Leaves(t) ==
    Concat([g \in DOMAIN t |->
        Concat([w \in DOMAIN t[g] |->
            Concat([d \in DOMAIN t[g][w] |-> t[g][w][d]])])])

\* C9: the table of a bit string of the configured length has total_groups x
\* weeks_per_group x days_per_week x classes_per_day leaves of segment
\* length, and their concatenation in traversal order is the bit string.
C9_ReshapeIsLosslessPartition ==
    codec.call = "_wrap_schedules_table" =>
        LET t == codec.strings
        IN  /\ Len(t) = problem.total_groups
            /\ \A g \in DOMAIN t :
                /\ Len(t[g]) = problem.weeks_per_group
                /\ \A w \in DOMAIN t[g] :
                    /\ Len(t[g][w]) = problem.days_per_week
                    /\ \A d \in DOMAIN t[g][w] :
                        /\ Len(t[g][w][d]) = problem.classes_per_day
                        /\ \A c \in DOMAIN t[g][w][d] :
                            Len(t[g][w][d][c]) = problem.total_string_len
            /\ Concat(Leaves(t)) = codec.arg

\* a table with several groups, days and classes of a string that has ones
C9_Witness ==
    /\ codec.call = "_wrap_schedules_table"
    /\ problem.total_groups >= 2
    /\ problem.days_per_week >= 2
    /\ problem.classes_per_day >= 2
    /\ \E j \in DOMAIN codec.arg : codec.arg[j] = 1
    /\ Len(Leaves(codec.strings)) = 8

\* the integer value of bits [a, b) of a bit string, most significant first
RECURSIVE BitsValue(_, _, _)
BitsValue(bits, a, b) ==
    IF a >= b THEN 0
    ELSE bits[a + 1] * 2 ^ (b - a - 1) + BitsValue(bits, a + 1, b)

\* C10: decode returns classroom = value of bits [0, classroom_char), teacher
\* = value of bits [classroom_char, teacher_char - 1), type = value of bits
\* [type_char, end); so classroom < 2^classroom_char, teacher <
\* 2^(teacher_char - 1 - classroom_char) and type is 0 or 1.
C10_DecodeFields ==
    codec.call = "decode_string" =>
        LET classroom == codec.class_tuple[1]
            teacher == codec.class_tuple[2]
            class_type == codec.class_tuple[3]
        IN  /\ classroom = BitsValue(codec.arg, 0, problem.classroom_char)
            /\ teacher = BitsValue(codec.arg, problem.classroom_char,
                                   problem.teacher_char - 1)
            /\ class_type = BitsValue(codec.arg, problem.type_char,
                                      Len(codec.arg))
            /\ classroom < 2 ^ problem.classroom_char
            /\ teacher < 2 ^ (problem.teacher_char - 1 - problem.classroom_char)
            /\ class_type \in {0, 1}

\* a decoded class string whose three fields are all at their maximum
C10_Witness ==
    /\ codec.call = "decode_string"
    /\ problem.teacher_char - 1 - problem.classroom_char >= 2
    /\ codec.class_tuple = <<2 ^ problem.classroom_char - 1, 3, 1>>

(***************************************************************************)
(* PureSolution: the variation operators.                                  *)
(*                                                                         *)
(* A probability is k / ProbaScale for k in 0 .. ProbaScale, and a draw of *)
(* random.random() is d / ProbaScale for d in 0 .. ProbaScale - 1, so that *)
(* random.random() < proba reads d < k.                                    *)
(***************************************************************************)
\* None, the cost of an individual that is not evaluated: costs are counts,
\* so a negative number is no cost
None == -1

\* range(a, b, step) as a tuple, step > 0
RangeStep(a, b, step) ==
    [j \in 1 .. (IF b > a THEN (b - a + step - 1) \div step ELSE 0) |->
        a + (j - 1) * step]

\* list[a:b] = repl for 0 <= a <= b
SliceAssign(list, a, b, repl) ==
    Slice(list, 0, a) \o repl \o Slice(list, b, Len(list))

\* list("0" * n)
Zeros(n) == [j \in 1 .. n |-> 0]

\* PureSolution.__init__ and __setup
PureSolution(p, indep_probas) ==
    [cross_indep_proba |-> indep_probas[1],
     mut_indep_proba |-> indep_probas[2],
     _mut_range_step |-> p.total_string_len * p.classes_per_day]

\* first_val[i] = second_val[i]; second_val[i] = first_val[i]
SwapAt_in_turn(vals, i) ==
    <<[vals[1] EXCEPT ![i + 1] = vals[2][i + 1]], vals[2]>>

\* first_val[i], second_val[i] = second_val[i], first_val[i]
SwapAt(vals, i) ==
    <<[vals[1] EXCEPT ![i + 1] = vals[2][i + 1]],
      [vals[2] EXCEPT ![i + 1] = vals[1][i + 1]]>>

\* the loop of cross_uni from position i on
RECURSIVE CrossLoop(_, _, _, _)
CrossLoop(sol, vals, draws, i) ==
    IF i >= Len(vals[1]) THEN vals
    ELSE CrossLoop(sol,
                   IF draws[i + 1] < sol.cross_indep_proba
                   THEN SwapAt(vals, i) ELSE vals,
                   draws, i + 1)

cross_uni(sol, individs, draws) ==
    LET crossed == CrossLoop(sol, <<individs[1][1], individs[2][1]>>, draws, 0)
    IN  <<<<crossed[1], None>>, <<crossed[2], None>>>>

\* plus_len = total_schedules_len * rand_mult
plus_len_of_schedule(p, rand_mult) == p.total_schedules_len * rand_mult

\* plus_len = total_string_len * rand_mult
plus_len(p, rand_mult) == p.total_string_len * rand_mult

\* the loop of mut_zeros from the k-th index of the range on
RECURSIVE MutLoop(_, _, _, _, _, _)
MutLoop(sol, p, ind_value, idxs, draws, k) ==
    IF k > Len(idxs) THEN ind_value
    ELSE LET i == idxs[k]
             rand_mult == draws[k].randint \div 2
             len == plus_len(p, rand_mult)
         IN  MutLoop(sol, p,
                     IF draws[k].random < sol.mut_indep_proba
                     THEN SliceAssign(ind_value, i, i + len, Zeros(len))
                     ELSE ind_value,
                     idxs, draws, k + 1)

\* the indices mut_zeros visits: range(0, len(individ), _mut_range_step),
\* where individ is the pair (value, cost)
MutIndices(sol, individ) == RangeStep(0, Len(individ), sol._mut_range_step)

\* a mutation that keeps the cost of an individual it left as it was
mut_zeros_keeps_cost(sol, p, individ, draws) ==
    LET value == MutLoop(sol, p, individ[1], MutIndices(sol, individ),
                         draws, 1)
    IN  <<value, IF value = individ[1] THEN individ[2] ELSE None>>

mut_zeros(sol, p, individ, draws) ==
    <<MutLoop(sol, p, individ[1], MutIndices(sol, individ), draws, 1), None>>

(***************************************************************************)
(* One call of a variation operator on evaluated individuals of the        *)
(* configured length.                                                      *)
(***************************************************************************)
\* constructor arguments: every bit layout up to MaxStringLen, one-day tables
\* of up to MaxDim groups and MaxClasses classes a day
VaryArgs ==
    [total_string_len : 1 .. MaxStringLen,
     classroom_char : 0 .. MaxStringLen,
     teacher_char : 0 .. MaxStringLen,
     type_char : 0 .. MaxStringLen,
     total_groups : 1 .. MaxDim,
     courses : {1},
     directions : {1},
     groups_per_lecture : {4},
     groups_per_practice : {2},
     classes_per_day : 1 .. MaxClasses,
     days_per_week : {1},
     weeks_per_group : {1}]

\* evaluated individuals: every bit string of length n
Individuals(n) == {<<value, 0>> : value \in BitStrings(n, n)}

\* evaluated individuals: the bit strings 11..1 and 1010.. of length n
PatternIndividuals(n) ==
    {<<[j \in 1 .. n |-> 1], 0>>, <<[j \in 1 .. n |-> j % 2], 0>>}

\* the draws of random.random() in one call of cross_uni
CrossDraws(n) == [1 .. n -> 0 .. ProbaScale - 1]

\* the draws of random.randint and random.random() in one call of mut_zeros
MutDraws(sol, p, individ) ==
    [DOMAIN MutIndices(sol, individ) ->
        [randint : 0 .. p.classes_per_day, random : 0 .. ProbaScale - 1]]

InitVary ==
    /\ problem \in Constructed(VaryArgs)
    /\ \E indep_probas \in (0 .. ProbaScale) \X (0 .. ProbaScale) :
        solution = PureSolution(problem, indep_probas)
    /\ \/ /\ problem.total_schedules_len <= MaxCrossLen
          /\ \E first \in Individuals(problem.total_schedules_len),
                second \in PatternIndividuals(problem.total_schedules_len),
                draws \in CrossDraws(problem.total_schedules_len) :
              vary = [NoVariation EXCEPT !.individs = <<first, second>>,
                                         !.draws = draws]
       \/ \E individ \in PatternIndividuals(problem.total_schedules_len) :
            \E draws \in MutDraws(solution, problem, individ) :
              vary = [NoVariation EXCEPT !.individs = <<individ>>,
                                         !.draws = draws]
    /\ codec = NoCall
    /\ IdleHall
    /\ IdleCost
    /\ IdleInit
    /\ IdleThreads
    /\ IdlePc
    /\ IdleEngine
    /\ IdleInsert

\* cross_uni on a pair of individuals
CrossUni ==
    /\ vary.call = "none"
    /\ Len(vary.individs) = 2
    /\ vary' = [vary EXCEPT !.call = "cross_uni",
                            !.result = cross_uni(solution, vary.individs,
                                                 vary.draws)]
    /\ UNCHANGED <<solution, codecVars, hallVars, costVars, construction,
                   insertVars, engineVars, pcVars, threadVars>>

\* mut_zeros on one individual
MutZeros ==
    /\ vary.call = "none"
    /\ Len(vary.individs) = 1
    /\ vary' = [vary EXCEPT !.call = "mut_zeros",
                            !.result = <<mut_zeros(solution, problem,
                                                   vary.individs[1],
                                                   vary.draws)>>]
    /\ UNCHANGED <<solution, codecVars, hallVars, costVars, construction,
                   insertVars, engineVars, pcVars, threadVars>>

NextVary == CrossUni \/ MutZeros

SpecVary == InitVary /\ [][NextVary]_vars

\* the number of ones of a bit string
RECURSIVE OnesCount(_)
OnesCount(bits) ==
    IF bits = <<>> THEN 0 ELSE bits[Len(bits)] + OnesCount(DelLast(bits))

\* C7: the children of a uniform crossover have the parents' length, at
\* every position they hold the parents' pair of bits or that pair swapped
\* (so the ones of both children are as many as those of both parents), with
\* cross_indep_proba = 0 they equal the parents and with cross_indep_proba =
\* 1 they are the parents exchanged.
C7_CrossoverSwapsPositionwise ==
    vary.call = "cross_uni" =>
        LET p1 == vary.individs[1][1]
            p2 == vary.individs[2][1]
            c1 == vary.result[1][1]
            c2 == vary.result[2][1]
        IN  /\ Len(c1) = Len(p1)
            /\ Len(c2) = Len(p1)
            /\ \A j \in DOMAIN p1 :
                \/ c1[j] = p1[j] /\ c2[j] = p2[j]
                \/ c1[j] = p2[j] /\ c2[j] = p1[j]
            /\ OnesCount(c1) + OnesCount(c2) = OnesCount(p1) + OnesCount(p2)
            /\ solution.cross_indep_proba = 0 => c1 = p1 /\ c2 = p2
            /\ solution.cross_indep_proba = ProbaScale => c1 = p2 /\ c2 = p1

\* a crossover that swapped one position where the parents differ and kept
\* another one
C7_Witness ==
    /\ vary.call = "cross_uni"
    /\ \E j, k \in DOMAIN vary.individs[1][1] :
        /\ vary.individs[1][1][j] # vary.individs[2][1][j]
        /\ vary.individs[1][1][k] # vary.individs[2][1][k]
        /\ vary.result[1][1][j] = vary.individs[2][1][j]
        /\ vary.result[1][1][k] = vary.individs[1][1][k]

\* C8: mut_zeros returns a bit string of its input's length whatever the
\* draws, and its input itself when mut_indep_proba = 0.
C8_MutationPreservesLength ==
    vary.call = "mut_zeros" =>
        /\ Len(vary.result[1][1]) = Len(vary.individs[1][1])
        /\ solution.mut_indep_proba = 0 =>
            vary.result[1][1] = vary.individs[1][1]

\* a mutation that zeroed a block of two class strings
C8_Witness ==
    /\ vary.call = "mut_zeros"
    /\ Len(vary.result[1][1]) = Len(vary.individs[1][1])
    /\ OnesCount(vary.individs[1][1]) - OnesCount(vary.result[1][1])
         = 2 * problem.total_string_len
    /\ problem.total_groups >= 2

(***************************************************************************)
(* ViolationsAdder and _CondChecker.                                       *)
(***************************************************************************)
hard_constraints ==
    <<"zero_class_members", "classroom_type", "classroom_num_contr",
      "multiple_teachers_contr", "classroom_type_contr", "teacher_contr",
      "duplicate_groups">>

soft_constraints == <<"group_limit", "classes_per_day">>

default_costs == [attr \in Elems(hard_constraints \o soft_constraints) |-> 1]

\* ViolationsAdder.__init__ sets the <kind>_cost attributes in `costs`; the
\* counts are no attributes of the adder until the first reset
ViolationsAdder(costs) == [costs |-> costs, counts |-> [attr \in {} |-> 0]]

\* a reset that leaves the counts alone once they are attributes
reset_violation_attrs_once(adder) ==
    IF DOMAIN adder.counts # {} THEN adder
    ELSE [adder EXCEPT !.counts =
             [attr \in Elems(hard_constraints \o soft_constraints) |-> 0]]

reset_violation_attrs(adder) ==
    [adder EXCEPT !.counts =
        [attr \in Elems(hard_constraints \o soft_constraints) |-> 0]]

\* overall_cost += count * cost over a list of kinds
RECURSIVE SumCosts(_, _)
SumCosts(adder, attrs) ==
    IF attrs = <<>> THEN 0
    ELSE adder.counts[attrs[1]] * adder.costs[attrs[1]]
         + SumCosts(adder, Tail(attrs))

sum_violations(adder) ==
    SumCosts(adder, hard_constraints) + SumCosts(adder, soft_constraints)

\* _CondChecker.__init__: none of its checking attributes is set
_CondChecker ==
    [mode |-> Unset, class_tuple |-> Unset, class_key |-> Unset,
     class_type |-> Unset, parts_num |-> Unset]

\* set_checker_attrs("contrs", class_tuple, class_key=class_key)
set_checker_attrs_contrs(checker, class_tuple, class_key) ==
    [checker EXCEPT !.class_tuple = class_tuple, !.class_key = class_key,
                    !.mode = "contrs"]

\* set_checker_attrs("part", class_tuple, valid_classes=valid_classes), with
\* parts_num the part number valid_classes holds for class_tuple
set_checker_attrs_part(checker, class_tuple, parts_num) ==
    [checker EXCEPT !.class_type = class_tuple[3], !.parts_num = parts_num,
                    !.mode = "part"]

check_parts_num(checker, int_code, parts_limit) ==
    checker.class_type = int_code /\ checker.parts_num > parts_limit

\* check_contr_cond in mode "contrs"
check_contr_cond(checker, not_pos) ==
    \A j \in 1 .. 3 :
        IF not_pos[j] THEN checker.class_key[j] # checker.class_tuple[j]
        ELSE checker.class_key[j] = checker.class_tuple[j]

(***************************************************************************)
(* Benchmark.  group_valid_classes, a dict from class tuple to [parts_num, *)
(* parts], is the tuple of its items [key, parts_num, parts] in insertion  *)
(* order.                                                                  *)
(***************************************************************************)
\* Benchmark.__init__
Benchmark(hard_penalty, soft_penalty, classes_per_day_pref, adder) ==
    [hard_penalty |-> hard_penalty,
     soft_penalty |-> soft_penalty,
     classes_preference |-> classes_per_day_pref,
     adder |-> adder,
     _cond_checker |-> _CondChecker]

\* self.adder.<attr> += n
AddTo(b, attr, n) == [b EXCEPT !.adder.counts[attr] = @ + n]

\* the position of class_tuple among the keys of valid_classes, 0 if absent
KeyIndex(valid_classes, class_tuple) ==
    IF \E j \in DOMAIN valid_classes : valid_classes[j].key = class_tuple
    THEN CHOOSE j \in DOMAIN valid_classes : valid_classes[j].key = class_tuple
    ELSE 0

\* default = [1, [group_num]]; valid_classes[class_tuple] = default
Register(valid_classes, group_num, class_tuple) ==
    Append(valid_classes,
           [key |-> class_tuple, parts_num |-> 1, parts |-> <<group_num>>])

\* a condition that takes every zero of classroom and teacher for invalid
invalid_class_tuple_chars_any_zero(class_tuple) ==
    class_tuple[1] = 0 \/ class_tuple[2] = 0

\* the condition of invalid_class_tuple_chars
invalid_class_tuple_chars(class_tuple) ==
    LET zeros == (IF class_tuple[1] = 0 THEN 1 ELSE 0)
                 + (IF class_tuple[2] = 0 THEN 1 ELSE 0)
    IN  \/ zeros = 1
        \/ class_tuple[1] = 0 /\ class_tuple[2] = 0 /\ class_tuple[3] # 0

\* valid_classroom_type: "True", or "AttributeError" where it reaches
\* self.classroom_type += 1, an attribute a Benchmark does not have
valid_classroom_type(p, classroom, class_type) ==
    LET lecture_classroom_mismatch ==
            /\ classroom \in Elems(p.lecture_classrooms)
            /\ class_type # lecture_int_code
        practice_classroom_mismatch ==
            /\ classroom \in Elems(p.practice_classrooms)
            /\ class_type # practice_int_code
    IN  IF ~lecture_classroom_mismatch THEN "True"
        ELSE IF ~practice_classroom_mismatch THEN "True"
        ELSE "AttributeError"

\* update_valid_class_value: the evaluator and the dict after the call
update_valid_class_value(b, valid_classes, group_num, class_tuple) ==
    LET j == KeyIndex(valid_classes, class_tuple)
        parts_num == valid_classes[j].parts_num
        checker == set_checker_attrs_part(b._cond_checker, class_tuple,
                                          parts_num)
        over_lecture_parts_num ==
            check_parts_num(checker, lecture_int_code, parts_num)
        over_practice_parts_num ==
            check_parts_num(checker, practice_int_code, parts_num)
        b1 == [b EXCEPT !._cond_checker = checker]
    IN  IF over_lecture_parts_num \/ over_practice_parts_num
        THEN [bench |-> AddTo(b1, "group_limit", 1), valid |-> valid_classes]
        ELSE IF group_num \in Elems(valid_classes[j].parts)
        THEN [bench |-> AddTo(b1, "duplicate_groups", 1),
              valid |-> valid_classes]
        ELSE [bench |-> b1,
              valid |-> [valid_classes EXCEPT
                            ![j].parts_num = @ + 1,
                            ![j].parts = Append(@, group_num)]]

\* one pass of the loop of update_valid_classes, for the key class_key
ContrStep(b, class_tuple, class_key) ==
    LET checker == set_checker_attrs_contrs(b._cond_checker, class_tuple,
                                            class_key)
        b1 == [b EXCEPT !._cond_checker = checker]
        b2 == IF check_contr_cond(checker, <<TRUE, FALSE, FALSE>>)
              THEN AddTo(b1, "classroom_num_contr", 1) ELSE b1
        b3 == IF check_contr_cond(checker, <<FALSE, TRUE, FALSE>>)
              THEN AddTo(b2, "multiple_teachers_contr", 1) ELSE b2
        b4 == IF check_contr_cond(checker, <<FALSE, FALSE, TRUE>>)
              THEN AddTo(b3, "classroom_type_contr", 1) ELSE b3
    IN  IF check_contr_cond(checker, <<TRUE, FALSE, TRUE>>)
        THEN AddTo(b4, "teacher_contr", 1) ELSE b4

\* the loop of update_valid_classes from the k-th key on
RECURSIVE ContrLoop(_, _, _, _)
ContrLoop(b, valid_classes, class_tuple, k) ==
    IF k > Len(valid_classes) THEN b
    ELSE ContrLoop(ContrStep(b, class_tuple, valid_classes[k].key),
                   valid_classes, class_tuple, k + 1)

\* update_valid_classes: the loop has no break, so its else clause always runs
update_valid_classes(b, valid_classes, group_num, class_tuple) ==
    [bench |-> ContrLoop(b, valid_classes, class_tuple, 1),
     valid |-> Register(valid_classes, group_num, class_tuple)]

\* _wrap_groups_dict: for every group the tuple of its class strings
_wrap_groups_dict(p, total_schedules) ==
    LET groups_dict_wrapped ==
            wrap_dict(total_schedules, p.wrap_groups_every_chars,
                      p.total_groups)
    IN  [g \in DOMAIN groups_dict_wrapped |->
            wrap(groups_dict_wrapped[g], p.total_string_len)]

\* the classes of one time slot: the decodings of the slot-th class string
\* of every group from group g on that has one (zip stops at the shorter)
RECURSIVE SlotClasses(_, _, _, _)
SlotClasses(p, groups_dict, slot, g) ==
    IF g > Len(groups_dict) THEN <<>>
    ELSE (IF slot <= Len(groups_dict[g])
          THEN <<decode_string(p, groups_dict[g][slot])>> ELSE <<>>)
         \o SlotClasses(p, groups_dict, slot, g + 1)

collect_simult_classes(p, total_schedules) ==
    LET groups_dict == _wrap_groups_dict(p, total_schedules)
    IN  [slot \in 1 .. p.classes_per_group |->
            SlotClasses(p, groups_dict, slot, 1)]

\* the loop of _append_counter over the classes of a day
RECURSIVE _append_counter(_)
_append_counter(day) ==
    IF day = <<>> THEN 0
    ELSE _append_counter(DelLast(day))
         + (IF 0 \notin {day[Len(day)][1], day[Len(day)][2]} THEN 1 ELSE -1)

\* collect_classes_per_day: for every group the counters of its days
collect_classes_per_day(p, total_schedules) ==
    LET schedules_table == _wrap_schedules_table(p, total_schedules)
    IN  [g \in DOMAIN schedules_table |->
            Concat([w \in DOMAIN schedules_table[g] |->
                [d \in DOMAIN schedules_table[g][w] |->
                    _append_counter(schedules_table[g][w][d])]])]

\* sum(viols) over the counters of one group
RECURSIVE SumViols(_, _)
SumViols(b, counters) ==
    IF counters = <<>> THEN 0
    ELSE (IF counters[1] \in Elems(b.classes_preference) THEN 1 ELSE 0)
         + SumViols(b, Tail(counters))

\* the loop of count_classes_per_day from group g on
RECURSIVE ViolsLoop(_, _, _)
ViolsLoop(b, classes_per_day, g) ==
    IF g > Len(classes_per_day) THEN b
    ELSE ViolsLoop(AddTo(b, "classes_per_day",
                         SumViols(b, classes_per_day[g])),
                   classes_per_day, g + 1)

count_classes_per_day(b, p, total_schedules) ==
    ViolsLoop(b, collect_classes_per_day(p, total_schedules), 1)

\* the inner loop of calculate_cost from the g-th class of the slot on;
\* st is [bench, valid, raised]
RECURSIVE GroupsLoop(_, _, _, _)
GroupsLoop(st, p, groups_list, g) ==
    IF g > Len(groups_list) \/ st.raised # "none" THEN st
    ELSE LET class_tuple == groups_list[g]
             group_num == g
             typed == valid_classroom_type(p, class_tuple[1], class_tuple[3])
             r == IF KeyIndex(st.valid, class_tuple) # 0
                  THEN update_valid_class_value(st.bench, st.valid, group_num,
                                                class_tuple)
                  ELSE update_valid_classes(st.bench, st.valid, group_num,
                                            class_tuple)
         IN  GroupsLoop(
                 IF Len(st.valid) < 1
                 THEN [st EXCEPT !.valid = Register(st.valid, group_num,
                                                    class_tuple)]
                 ELSE IF invalid_class_tuple_chars(class_tuple)
                 THEN [st EXCEPT !.bench =
                          AddTo(st.bench, "zero_class_members", 1)]
                 ELSE IF typed = "AttributeError"
                 THEN [st EXCEPT !.raised = typed]
                 ELSE IF typed # "True" THEN st
                 ELSE [st EXCEPT !.bench = r.bench, !.valid = r.valid],
                 p, groups_list, g + 1)

\* the outer loop of calculate_cost from the k-th slot on
RECURSIVE SlotsLoop(_, _, _, _)
SlotsLoop(st, p, simult_classes, k) ==
    IF k > Len(simult_classes) THEN st
    ELSE SlotsLoop(GroupsLoop([st EXCEPT !.valid = <<>>], p,
                              simult_classes[k], 1),
                   p, simult_classes, k + 1)

\* collect_simult_classes raises the ValueError of decode_string: a class
\* string it decodes has an empty field
collect_simult_classes_raises(p, total_schedules) ==
    LET groups_dict == _wrap_groups_dict(p, total_schedules)
    IN  \E g \in DOMAIN groups_dict :
            \E slot \in DOMAIN groups_dict[g] :
                /\ slot <= p.classes_per_group
                /\ decode_raises(p, groups_dict[g][slot])

\* collect_classes_per_day raises the ValueError of decode_string: a leaf of
\* the table has an empty field
collect_classes_per_day_raises(p, total_schedules) ==
    LET leaves == Leaves(wrapped_strings(p, total_schedules))
    IN  \E j \in DOMAIN leaves : decode_raises(p, leaves[j])

\* calculate_cost: the evaluator after the call, the exception raised or
\* "none", and the cost returned
calculate_cost(b, p, total_shedules) ==
    LET b0 == [b EXCEPT !.adder = reset_violation_attrs(b.adder)]
        st == SlotsLoop([bench |-> b0, valid |-> <<>>, raised |-> "none"], p,
                        collect_simult_classes(p, total_shedules), 1)
        b1 == count_classes_per_day(st.bench, p, total_shedules)
    IN  IF collect_simult_classes_raises(p, total_shedules)
        THEN [bench |-> b0, raised |-> "ValueError", cost |-> 0]
        ELSE IF st.raised # "none"
        THEN [bench |-> st.bench, raised |-> st.raised, cost |-> 0]
        ELSE IF collect_classes_per_day_raises(p, total_shedules)
        THEN [bench |-> st.bench, raised |-> "ValueError", cost |-> 0]
        ELSE [bench |-> b1, raised |-> "none",
              cost |-> sum_violations(b1.adder)]

(***************************************************************************)
(* One evaluator, under any sequence of calculate_cost calls on bit        *)
(* strings of the configured length.                                       *)
(***************************************************************************)
default_soft_penalty == 5

default_classes_per_day_pref == Range(2, 6)

\* constructor arguments: every bit layout up to MaxStringLen, one-day tables
\* of up to MaxDim groups and MaxDim classes a day whose individuals have at
\* most MaxCostLen bits
CostArgs ==
    {a \in [total_string_len : 1 .. MaxStringLen,
            classroom_char : 0 .. MaxStringLen,
            teacher_char : 0 .. MaxStringLen,
            type_char : 0 .. MaxStringLen,
            total_groups : 1 .. MaxDim,
            courses : {1},
            directions : {1},
            groups_per_lecture : {4},
            groups_per_practice : {2},
            classes_per_day : 1 .. MaxDim,
            days_per_week : {1},
            weeks_per_group : {1}] :
        total_schedules_len(a) <= MaxCostLen}

\* the problems whose class strings decode_string decodes
Decodable(problems) ==
    {p \in problems : ~decode_raises(p, Zeros(p.total_string_len))}

\* create_random_schedule: any bit string of the configured length
RandomSchedules(p) ==
    {format_binary(num, p.total_schedules_len) :
        num \in 0 .. 2 ^ p.total_schedules_len - 1}

\* the values evaluated between two evaluations of one value: the bit
\* strings 11..1, 1010.. and 10..0 of the configured length
OtherSchedules(p) ==
    {[j \in 1 .. p.total_schedules_len |-> 1],
     [j \in 1 .. p.total_schedules_len |-> j % 2],
     [j \in 1 .. p.total_schedules_len |-> IF j = 1 THEN 1 ELSE 0]}

\* invalid_ind_values: a value, another value, and the first value again
InvalidIndValues(p) ==
    {<<value, other, value>> :
        value \in RandomSchedules(p), other \in OtherSchedules(p)}

InitCost ==
    /\ problem \in Decodable(Constructed(CostArgs))
    /\ \E hard_penalty \in 1 .. MaxPenalty :
        benchmark = Benchmark(hard_penalty, default_soft_penalty,
                              default_classes_per_day_pref,
                              ViolationsAdder(default_costs))
    /\ \E invalid_ind_values \in InvalidIndValues(problem) :
        evaluation = [NoEvaluation EXCEPT !.values = invalid_ind_values]
    /\ codec = NoCall
    /\ IdleHall
    /\ IdleVary
    /\ IdleInit
    /\ IdleThreads
    /\ IdlePc
    /\ IdleEngine
    /\ IdleInsert

\* the next call of map(self.benchmark.calculate_cost, invalid_ind_values)
CalculateCost ==
    /\ evaluation.call \in {"none", "calculate_cost"}
    /\ Len(evaluation.costs) < Len(evaluation.values)
    /\ LET total_shedules == evaluation.values[Len(evaluation.costs) + 1]
           r == calculate_cost(benchmark, problem, total_shedules)
       IN  /\ benchmark' = r.bench
           /\ evaluation' =
                IF r.raised = "none"
                THEN [evaluation EXCEPT !.call = "calculate_cost",
                                        !.costs = Append(@, r.cost)]
                ELSE [evaluation EXCEPT !.call = r.raised]
    /\ UNCHANGED <<problem, codec, hallVars, varyVars, construction,
                   insertVars, engineVars, pcVars, threadVars>>

NextCost == CalculateCost

SpecCost == InitCost /\ [][NextCost]_vars

\* the value the last call of calculate_cost evaluated
LastValue == evaluation.values[Len(evaluation.costs)]

\* C4: calculate_cost returns a cost >= 0, and the same cost for the same
\* value whatever it evaluated in between.
C4_CostIsDeterministic ==
    \A i, j \in DOMAIN evaluation.costs :
        /\ evaluation.costs[i] >= 0
        /\ evaluation.values[i] = evaluation.values[j] =>
            evaluation.costs[i] = evaluation.costs[j]

\* a value of cost zero evaluated twice, with a value of non-zero cost
\* evaluated in between
C4_Witness ==
    /\ Len(evaluation.costs) = 3
    /\ evaluation.values[1] = evaluation.values[3]
    /\ evaluation.values[2] # evaluation.values[1]
    /\ evaluation.costs[2] > 0
    /\ evaluation.costs[3] = 0

\* the cost the last call of calculate_cost returned
LastCost == evaluation.costs[Len(evaluation.costs)]

\* the sum of the counts of a list of kinds
RECURSIVE SumCounts(_, _)
SumCounts(adder, attrs) ==
    IF attrs = <<>> THEN 0
    ELSE adder.counts[attrs[1]] + SumCounts(adder, Tail(attrs))

\* C5: the cost returned is hard_penalty times the sum of the counts of the
\* seven hard kinds plus soft_penalty times the sum of the counts of the two
\* soft kinds.
C5_CostIsPenaltyWeightedSum ==
    evaluation.call = "calculate_cost" =>
        LastCost
          = benchmark.hard_penalty
              * SumCounts(benchmark.adder, hard_constraints)
            + benchmark.soft_penalty
              * SumCounts(benchmark.adder, soft_constraints)

\* the last value evaluated is the all-zero bit string
LastValueAllZero ==
    /\ evaluation.call = "calculate_cost"
    /\ \A j \in DOMAIN LastValue : LastValue[j] = 0

DefaultArgs ==
    [total_string_len |-> 8, classroom_char |-> 4, teacher_char |-> 7,
     type_char |-> 7, total_groups |-> 63, courses |-> 2, directions |-> 4,
     groups_per_lecture |-> 4, groups_per_practice |-> 2,
     classes_per_day |-> 8, days_per_week |-> 6, weeks_per_group |-> 2]

\* the defaults but for the groups, courses and directions
SplittingArgs ==
    {[DefaultArgs EXCEPT !.total_groups = g, !.courses = c, !.directions = d] :
        g \in 1 .. MaxInitGroups, c \in 1 .. MaxCourses,
        d \in 1 .. MaxDirections}

\* the tuples of at most MaxClassroomsLen classroom numbers
ClassroomTuples == SeqsUpTo(0 .. MaxClassroomNum, MaxClassroomsLen)

\* the layout 5 / 2 / 4 / 4 with its three classrooms, one group, course and
\* direction, and any two tuples of classroom numbers
ClassroomsArgs ==
    {[total_string_len |-> 5, classroom_char |-> 2, teacher_char |-> 4,
      type_char |-> 4, total_groups |-> 1, courses |-> 1, directions |-> 1,
      groups_per_lecture |-> 4, groups_per_practice |-> 2,
      classes_per_day |-> 1, days_per_week |-> 1, weeks_per_group |-> 1,
      lecture_classrooms |-> l, practice_classrooms |-> pr] :
        l \in ClassroomTuples, pr \in ClassroomTuples}

InitInit ==
    /\ \E a \in {DefaultArgs} \cup SplittingArgs \cup ClassroomsArgs :
        construction = [NoConstruction EXCEPT !.args = a]
    /\ IdleHall
    /\ IdleCodec
    /\ IdleVary
    /\ IdleCost
    /\ IdleInsert
    /\ IdleEngine
    /\ IdlePc
    /\ IdleThreads

\* ScheduleProblem(**args)
Construct ==
    /\ construction.outcome = "none"
    /\ LET r == ScheduleProblem(construction.args)
       IN  /\ construction' = [construction EXCEPT !.outcome = r.error]
           /\ problem' = IF r.error = "ok" THEN r.attrs ELSE problem
    /\ UNCHANGED <<codec, hallVars, varyVars, costVars, insertVars,
                   engineVars, pcVars, threadVars>>

NextInit == Construct

SpecInit == InitInit /\ [][NextInit]_vars

\* C11 as stated: the construction fails when total_groups + 1 is not a
\* multiple of courses or (total_groups + 1) / courses is not a multiple of
\* directions, and succeeds when both divisions are exact.
C11_SplittingIsValidated ==
    LET a == construction.args
        exact == /\ (a.total_groups + 1) % a.courses = 0
                 /\ ((a.total_groups + 1) \div a.courses) % a.directions = 0
    IN  (construction.outcome # "none" /\ "lecture_classrooms" \notin DOMAIN a)
            => (construction.outcome = "ok" <=> exact)

\* C12 as stated: the construction fails when the two classroom ranges share
\* a number or their union is not the set of all classroom numbers, so a
\* constructed problem has disjoint ranges that cover 1 .. total_classrooms.
C12_ClassroomRangesAreValidated ==
    construction.outcome = "ok" =>
        /\ Elems(problem.lecture_classrooms)
             \cap Elems(problem.practice_classrooms) = {}
        /\ Elems(problem.lecture_classrooms)
             \cup Elems(problem.practice_classrooms)
             = 1 .. problem.total_classrooms

(***************************************************************************)
(* One calculate_cost call on a bit string of any length.                  *)
(***************************************************************************)
\* C16 as stated: for every accepted configuration and every bit string of
\* the configured length, decoding (and so calculate_cost, which decodes
\* every class string) never raises.
C16_DecodingNeverRaises == codec.call # "ValueError"

\* the bit strings of at most MaxCostLen bits
AnySchedules == UNION {BitStrings(n, n) : n \in 0 .. MaxCostLen}

InitLength ==
    /\ problem \in Decodable(Constructed(CostArgs))
    /\ \E hard_penalty \in 1 .. MaxPenalty :
        benchmark = Benchmark(hard_penalty, default_soft_penalty,
                              default_classes_per_day_pref,
                              ViolationsAdder(default_costs))
    /\ \E total_shedules \in AnySchedules :
        evaluation = [NoEvaluation EXCEPT !.values = <<total_shedules>>]
    /\ codec = NoCall
    /\ IdleHall
    /\ IdleVary
    /\ IdleInit
    /\ IdleThreads
    /\ IdlePc
    /\ IdleEngine
    /\ IdleInsert

NextLength == CalculateCost

SpecLength == InitLength /\ [][NextLength]_vars

\* C14 as stated: calculate_cost on a bit string whose length is not the
\* configured one ends in an error, it returns no cost.
C14_WrongLengthIsRejected ==
    (/\ evaluation.call # "none"
     /\ Len(evaluation.values[1]) # problem.total_schedules_len)
        => evaluation.call # "calculate_cost"

(***************************************************************************)
(* One insertion into a sorted, non-empty archive.                         *)
(***************************************************************************)
IsSortedByCost(members) ==
    \A j \in 1 .. Len(members) - 1 : members[j][2] <= members[j + 1][2]

\* the archives update leaves behind: at most size members, lowest cost
\* first (seeding copies the head of the sorted population, equal costs
\* included), best the first member
SortedArchives ==
    {[size |-> size, members |-> members, best |-> members[1]] :
        size \in 1 .. MaxHallSize,
        members \in {m \in SeqsUpTo(HallIndividuals, MaxHallSize) \ {<<>>} :
                        IsSortedByCost(m)}}

InitInsert ==
    /\ fame_hall \in {hall \in SortedArchives :
                         Len(hall.members) <= hall.size}
    /\ hall_log = NoHistory
    /\ \E individ \in HallIndividuals :
        insertion = [NoInsertion EXCEPT !.individ = individ]
    /\ IdleCodec
    /\ IdleVary
    /\ IdleCost
    /\ IdleInit
    /\ IdleThreads
    /\ IdlePc
    /\ IdleEngine

\* fame_hall.insert(individ)
Insert ==
    /\ insertion.call = "none"
    /\ fame_hall' = insert(fame_hall, insertion.individ)
    /\ insertion' = [insertion EXCEPT !.call = "insert",
                                      !.before = fame_hall.members]
    /\ UNCHANGED <<hall_log, codecVars, varyVars, costVars, construction,
                   engineVars, pcVars, threadVars>>

\* fame_hall.update([individ]): one turn of update's loop
UpdateWith ==
    /\ insertion.call = "none"
    /\ LET r == update(fame_hall, hall_log, <<insertion.individ>>)
       IN  /\ fame_hall' = r.hall
           /\ hall_log' = r.log
    /\ insertion' = [insertion EXCEPT !.call = "update",
                                      !.before = fame_hall.members]
    /\ UNCHANGED <<codecVars, varyVars, costVars, construction, engineVars,
                   pcVars, threadVars>>

NextInsert == Insert \/ UpdateWith

SpecInsert == InitInsert /\ [][NextInsert]_vars

\* the 1-based position of the first member that costs more than cost, or 0
FirstGreater(members, cost) ==
    IF \E k \in DOMAIN members : members[k][2] > cost
    THEN CHOOSE k \in DOMAIN members :
            /\ members[k][2] > cost
            /\ \A j \in 1 .. k - 1 : members[j][2] <= cost
    ELSE 0

\* C17 as stated: a candidate whose cost a member already has is dropped;
\* any other candidate is inserted immediately before the first member that
\* costs strictly more; and update removes the tail member when the
\* insertion made the archive exceed its capacity.
C17_InsertBeforeFirstGreater ==
    insertion.call # "none" =>
        LET before == insertion.before
            cost == insertion.individ[2]
            k == FirstGreater(before, cost)
            grown == ListInsert(before, k - 1, insertion.individ)
        IN  /\ (\E j \in DOMAIN before : before[j][2] = cost)
                    => fame_hall.members = before
            /\ ((\A j \in DOMAIN before : before[j][2] # cost) /\ k # 0)
                    => fame_hall.members =
                            IF /\ insertion.call = "update"
                               /\ Len(grown) > fame_hall.size
                            THEN DelLast(grown)
                            ELSE grown

(***************************************************************************)
(* perform_algorithm, one step of its loop at a time.                      *)
(***************************************************************************)
MaxGenerations == 2

\* the individual max(parts, key=cost) returns: the first of the most costly
MaxByCost(parts) ==
    LET k == CHOOSE k \in DOMAIN parts :
                /\ \A j \in DOMAIN parts : parts[j][2] <= parts[k][2]
                /\ \A j \in 1 .. k - 1 : parts[j][2] < parts[k][2]
    IN  parts[k]

\* the individual min(parts, key=cost) would return
MinByCost(parts) ==
    LET k == CHOOSE k \in DOMAIN parts :
                /\ \A j \in DOMAIN parts : parts[j][2] >= parts[k][2]
                /\ \A j \in 1 .. k - 1 : parts[j][2] > parts[k][2]
    IN  parts[k]

\* random.sample(individs, k): k distinct positions, in any order
Samples(individs, k) ==
    {[j \in 1 .. k |-> individs[pos[j]]] :
        pos \in {q \in [1 .. k -> DOMAIN individs] :
                    \A i, j \in 1 .. k : i # j => q[i] # q[j]}}

\* select_tourn, given the samples its n_sels rounds draw
select_tourn(samples) == [j \in DOMAIN samples |-> MaxByCost(samples[j])]

\* n_sels of one generation
n_sels(population, curr_fame_hall_size) ==
    IF curr_fame_hall_size < Len(population)
    THEN Len(population) - curr_fame_hall_size
    ELSE curr_fame_hall_size

\* the crossover loop of evolve from the k-th pair on; every random() of the
\* call returns draw
RECURSIVE EvolveCross(_, _, _, _)
EvolveCross(sol, st, draw, i) ==
    IF i >= Len(st.offspring) THEN st
    ELSE EvolveCross(sol,
            IF draw < sol.crossover_proba
            THEN LET crossed == cross_uni(sol,
                                    <<st.offspring[i], st.offspring[i + 1]>>,
                                    [j \in 1 .. Len(st.offspring[i][1]) |->
                                        draw])
                 IN  [st EXCEPT !.offspring[i] = crossed[1],
                                !.offspring[i + 1] = crossed[2],
                                !.varied = @ \cup {i, i + 1},
                                !.cross_count = @ + 1]
            ELSE st,
            draw, i + 2)

\* the mutation loop of evolve from the k-th individual on; the random() of
\* the k-th pass returns draws[k], as does every random() of its mut_zeros
RECURSIVE EvolveMut(_, _, _, _, _, _)
EvolveMut(sol, p, st, draws, randint, k) ==
    IF k > Len(st.offspring) THEN st
    ELSE EvolveMut(sol, p,
            IF draws[k] < sol.mutation_proba
            THEN [st EXCEPT
                    !.offspring[k] =
                        mut_zeros(sol, p, @,
                                  [j \in DOMAIN MutIndices(sol, @) |->
                                      [random |-> draws[k],
                                       randint |-> randint]]),
                    !.varied = @ \cup {k},
                    !.mut_count = @ + 1]
            ELSE st,
            draws, randint, k + 1)

\* evolve: the offspring, the numbers of crossovers and mutations, and the
\* positions cross_uni or mut_zeros returned an individual for
evolve(sol, p, population, draw, draws, randint) ==
    EvolveMut(sol, p,
              EvolveCross(sol, [offspring |-> population, cross_count |-> 0,
                                mut_count |-> 0, varied |-> {}], draw, 1),
              draws, randint, 1)

\* utils.invalid_individ_values: the values of the individuals without a
\* cost, in order
RECURSIVE invalid_individ_values(_)
invalid_individ_values(population) ==
    IF population = <<>> THEN <<>>
    ELSE (IF population[1][2] = None THEN <<population[1][1]>> ELSE <<>>)
         \o invalid_individ_values(Tail(population))

\* positions that count the individuals without a cost from the start
invalid_individ_positions_from_start(population) ==
    [k \in 1 .. Len(invalid_individ_values(population)) |-> k]

\* utils.invalid_individ_positions: the positions of the individuals
\* without a cost, in order (position i of the code is i + 1 here)
invalid_individ_positions(population) ==
    LET RECURSIVE From(_)
        From(k) == IF k > Len(population) THEN <<>>
                   ELSE (IF population[k][2] = None THEN <<k>> ELSE <<>>)
                        \o From(k + 1)
    IN  From(1)

\* utils.blank_individs_list
blank_individs_list(base_on) == [k \in DOMAIN base_on |-> <<<<>>, None>>]

\* map(self.benchmark.calculate_cost, invalid_ind_values) from the k-th value
\* on; st is [bench, raised, costs]
RECURSIVE MapCalculateCost(_, _, _, _)
MapCalculateCost(st, p, invalid_ind_values, k) ==
    IF k > Len(invalid_ind_values) \/ st.raised # "none" THEN st
    ELSE CHOOSE after \in
            {MapCalculateCost(
                 [bench |-> r.bench, raised |-> r.raised,
                  costs |-> IF r.raised = "none"
                            THEN Append(st.costs, r.cost) ELSE st.costs],
                 p, invalid_ind_values, k + 1) :
                r \in {calculate_cost(st.bench, p, invalid_ind_values[k])}} :
            TRUE

\* for i, ind in zip(positions, individs): population[i] = ind
RECURSIVE WriteBack(_, _, _)
WriteBack(population, positions, individs) ==
    IF positions = <<>> \/ individs = <<>> THEN population
    ELSE WriteBack([population EXCEPT ![positions[1]] = individs[1]],
                   Tail(positions), Tail(individs))

\* evaluated_inds[i] = (ind_val, cost) over zip(enumerate(values), costs)
EvaluatedInds(blank_list, invalid_ind_values, costs) ==
    WriteBack(blank_list, [k \in DOMAIN costs |-> k],
              [k \in DOMAIN costs |-> <<invalid_ind_values[k], costs[k]>>])

\* the evaluation of a generation: the values without a cost are evaluated
\* into a blank list, which is written back at the positions without a cost
evaluate(b, p, offspring) ==
    CHOOSE ev \in UNION {
        {[bench |-> m.bench, raised |-> m.raised,
          individs |-> IF m.raised # "none" THEN offspring
                       ELSE WriteBack(
                                offspring,
                                invalid_individ_positions(offspring),
                                EvaluatedInds(
                                    blank_individs_list(invalid_ind_values),
                                    invalid_ind_values, m.costs))] :
            m \in {MapCalculateCost([bench |-> b, raised |-> "none",
                                     costs |-> <<>>],
                                    p, invalid_ind_values, 1)}} :
        invalid_ind_values \in {invalid_individ_values(offspring)}} : TRUE

\* the evaluation of the initial population: the values without a cost are
\* written back at their index among these values
evaluate_population(b, p, population) ==
    CHOOSE ev \in UNION {
        {[bench |-> m.bench, raised |-> m.raised,
          individs |-> IF m.raised # "none" THEN population
                       ELSE EvaluatedInds(population, invalid_ind_values,
                                          m.costs)] :
            m \in {MapCalculateCost([bench |-> b, raised |-> "none",
                                     costs |-> <<>>],
                                    p, invalid_ind_values, 1)}} :
        invalid_ind_values \in {invalid_individ_values(population)}} : TRUE

\* the problem of the runs: two groups with one class of four bits each
EngineProblem ==
    ScheduleProblem([total_string_len |-> 4, classroom_char |-> 1,
                     teacher_char |-> 3, type_char |-> 3,
                     total_groups |-> 2, courses |-> 1, directions |-> 1,
                     groups_per_lecture |-> 4, groups_per_practice |-> 2,
                     classes_per_day |-> 1, days_per_week |-> 1,
                     weeks_per_group |-> 1]).attrs

\* probabilities 0 and 1
EngineProbas == {0, ProbaScale}

\* the least and the greatest value random.random() returns
EngineDraws == {0, ProbaScale - 1}

\* PureSolution(problem, benchmark, **args): populations of two or three,
\* an archive smaller than the population or as large, tournaments of one
\* individual or of the whole population (random.sample raises ValueError
\* when tournament_size exceeds the population), crossover off or on,
\* the mutation probabilities 0, 1 / ProbaScale and 1, and runs of one
\* generation and of MaxGenerations
EngineArgs ==
    {[population_size |-> population_size,
      crossover_proba |-> proba,
      mutation_proba |-> mutation_proba,
      n_generations |-> n_generations,
      fame_hall_size |-> fame_hall_size,
      tournament_size |-> tournament_size,
      indep_proba |-> proba] :
        population_size \in {2, 3},
        proba \in EngineProbas,
        mutation_proba \in EngineProbas \cup {1},
        n_generations \in {1, MaxGenerations},
        fame_hall_size \in {1, 3},
        tournament_size \in {1, 2}}

\* PureSolution.__init__ and __setup with every argument
NewPureSolution(p, a) ==
    [population_size |-> a.population_size,
     crossover_proba |-> a.crossover_proba,
     mutation_proba |-> a.mutation_proba,
     n_generations |-> a.n_generations,
     fame_hall_size |-> a.fame_hall_size,
     tournament_size |-> a.tournament_size,
     cross_indep_proba |-> a.indep_proba,
     mut_indep_proba |-> a.indep_proba,
     _mut_range_step |-> p.total_string_len * p.classes_per_day]

\* create_random_individual: 00..0 or 10..0, not yet evaluated
EngineIndividuals(p) ==
    {<<value, None>> :
        value \in {Zeros(p.total_schedules_len),
                   [j \in 1 .. p.total_schedules_len |->
                       IF j = 1 THEN 1 ELSE 0]}}

\* range(1, n_generations + 1) is exhausted
GenerationsDone_early(sol, gen) == gen >= sol.n_generations

GenerationsDone(sol, gen) == gen > sol.n_generations

\* the position after a generation's last step, or before the first
AfterGeneration(sol, gen) ==
    IF GenerationsDone(sol, gen) THEN "done" ELSE "select"

InitEngine ==
    /\ problem = EngineProblem
    /\ benchmark = Benchmark(1, default_soft_penalty,
                             default_classes_per_day_pref,
                             ViolationsAdder(default_costs))
    /\ \E a \in EngineArgs :
        /\ solution = NewPureSolution(problem, a)
        /\ fame_hall = NewFameHall(a.fame_hall_size)
    /\ hall_log = NoHistory
    /\ IdleThreads
    /\ pc = "init"
    /\ engine = [gen |-> 0, population |-> <<>>, offspring |-> <<>>,
                 parts |-> <<>>, varied |-> {}, unevaluated |-> <<>>,
                 evaluated |-> <<>>,
                 curr_fame_hall_size |-> 0, log |-> <<>>]
    /\ codec = NoCall
    /\ vary = NoVariation
    /\ evaluation = NoEvaluation
    /\ IdleInit
    /\ IdleThreads
    /\ IdleInsert

\* perform_algorithm up to the loop: the random population is evaluated and
\* handed to fame_hall.update, which sorts it in place
Start ==
    /\ pc = "init"
    /\ \E population \in [1 .. solution.population_size ->
                            EngineIndividuals(problem)] :
        \E ev \in {evaluate_population(benchmark, problem, population)} :
            \E r \in {update(fame_hall, hall_log, ev.individs)} :
                /\ benchmark' = ev.bench
                /\ IF ev.raised # "none"
                   THEN /\ pc' = ev.raised
                        /\ UNCHANGED <<hallVars, engine, threadVars>>
                   ELSE /\ pc' = AfterGeneration(solution, 1)
                        /\ fame_hall' = r.hall
                        /\ hall_log' = r.log
                        /\ engine' = [engine EXCEPT
                                        !.gen = 1,
                                        !.unevaluated = population,
                                        !.evaluated = ev.individs,
                                        !.population =
                                            SortPopulation(ev.individs),
                                        !.curr_fame_hall_size =
                                            Len(r.hall.members)]
    /\ UNCHANGED <<problem, codec, solution, vary, evaluation, construction,
                   insertVars, threadVars>>

\* offspring = self.select_tourn(population, n_sels)
Select ==
    /\ pc = "select"
    /\ pc' = "vary"
    /\ \E samples \in [1 .. n_sels(engine.population,
                                   engine.curr_fame_hall_size) ->
                          Samples(engine.population,
                                  solution.tournament_size)] :
        engine' = [engine EXCEPT !.parts = samples,
                                 !.offspring = select_tourn(samples),
                                 !.log = Append(@, <<engine.gen, "select">>)]
    /\ UNCHANGED <<hallVars, codecVars, solution, vary, costVars,
                   construction, insertVars, threadVars>>

\* offspring, cross_mut_nums = self.evolve(offspring)
Vary ==
    /\ pc = "vary"
    /\ pc' = "evaluate"
    /\ \E draw \in EngineDraws,
          draws \in [DOMAIN engine.offspring -> EngineDraws],
          randint \in 0 .. problem.classes_per_day :
        \E evolved \in {evolve(solution, problem, engine.offspring, draw,
                               draws, randint)} :
            engine' = [engine EXCEPT
                     !.parts = <<>>,
                     !.offspring = evolved.offspring,
                     !.varied = evolved.varied,
                     !.log = Append(@, <<engine.gen, "vary">>)]
    /\ UNCHANGED <<hallVars, codecVars, solution, vary, costVars,
                   construction, insertVars, threadVars>>

\* the offspring without a cost are evaluated
Evaluate ==
    /\ pc = "evaluate"
    /\ \E ev \in {evaluate(benchmark, problem, engine.offspring)} :
        /\ benchmark' = ev.bench
        /\ IF ev.raised # "none"
           THEN /\ pc' = ev.raised
                /\ UNCHANGED engine
           ELSE /\ pc' = "merge"
                /\ engine' = [engine EXCEPT
                                !.offspring = ev.individs,
                                !.unevaluated = engine.offspring,
                                !.evaluated = ev.individs,
                                !.log = Append(@, <<engine.gen, "evaluate">>)]
    /\ UNCHANGED <<hallVars, codecVars, solution, vary, evaluation,
                   construction, insertVars, threadVars>>

\* offspring.extend(self.fame_hall.members); self.fame_hall.update(offspring)
Merge ==
    /\ pc = "merge"
    /\ pc' = AfterGeneration(solution, engine.gen + 1)
    /\ \E extended \in {engine.offspring \o fame_hall.members} :
        \E r \in {update(fame_hall, hall_log, extended)} :
            /\ fame_hall' = r.hall
            /\ hall_log' = r.log
            /\ engine' = [engine EXCEPT
                            !.gen = @ + 1,
                            !.offspring = SortPopulation(extended),
                            !.log = Append(@, <<engine.gen, "merge">>)]
    /\ UNCHANGED <<codecVars, solution, vary, costVars, construction,
                   insertVars, threadVars>>

NextEngine == Start \/ Select \/ Vary \/ Evaluate \/ Merge

SpecEngine == InitEngine /\ [][NextEngine]_vars

\* the positions of perform_algorithm while it runs
Running == {"init", "select", "vary", "evaluate", "merge"}

\* the interpreter moves on: the position changes
MoveOn ==
    /\ pc \in Running
    /\ pc' \in (Running \cup {"done", "ValueError", "AttributeError"}) \ {pc}

\* the same run with an interpreter that does not stop by itself: every
\* step of NextEngine changes the position and is possible at every position
\* of Running, so this is weak fairness of NextEngine
LiveSpecEngine == SpecEngine /\ WF_pc(MoveOn)

StepNames == <<"select", "vary", "evaluate", "merge">>

\* the steps of n generations in order
ExpectedLog(n) ==
    [j \in 1 .. 4 * n |-> <<((j - 1) \div 4) + 1, StepNames[((j - 1) % 4) + 1]>>]

C18_TournamentKeepsLowestCost ==
    pc = "vary" =>
        \A j \in DOMAIN engine.parts :
            engine.offspring[j][2] = MinByCost(engine.parts[j])[2]

\* C19 as stated: Select chooses population_size minus the number of
\* archive members at the start of the generation, also when the archive
\* holds as many members as the population.
C19_SelectsPopulationMinusElite ==
    pc = "vary" =>
        Len(engine.offspring) =
            solution.population_size - Len(fame_hall.members)

\* the number of positions of list that hold x
CountOf(list, x) == Cardinality({j \in DOMAIN list : list[j] = x})

\* C20 as stated: from the second generation on, Select works on the
\* evaluated offspring of the generation before.
C20_NextPopulationIsOffspring ==
    (pc = "select" /\ engine.gen >= 2) =>
        /\ Len(engine.population) = Len(engine.evaluated)
        /\ \A j \in DOMAIN engine.evaluated :
            CountOf(engine.population, engine.evaluated[j]) =
                CountOf(engine.evaluated, engine.evaluated[j])

(***************************************************************************)
(* Two calculate_cost calls on one evaluator, interleaved between their    *)
(* three parts: the reset of the counts, the counting, the sum.            *)
(***************************************************************************)
\* calculate_cost between reset_violation_attrs and sum_violations
count_violations(b, p, total_shedules) ==
    LET st == SlotsLoop([bench |-> b, valid |-> <<>>, raised |-> "none"], p,
                        collect_simult_classes(p, total_shedules), 1)
    IN  IF collect_simult_classes_raises(p, total_shedules)
        THEN [bench |-> b, raised |-> "ValueError"]
        ELSE IF st.raised # "none"
        THEN [bench |-> st.bench, raised |-> st.raised]
        ELSE IF collect_classes_per_day_raises(p, total_shedules)
        THEN [bench |-> st.bench, raised |-> "ValueError"]
        ELSE [bench |-> count_classes_per_day(st.bench, p, total_shedules),
              raised |-> "none"]

Threads == {1, 2}

\* the bit strings the two calls evaluate: 00..0, 11..1, 1010.. and 10..0
ThreadValues(p) == {Zeros(p.total_schedules_len)} \cup OtherSchedules(p)

InitThreads ==
    /\ problem = EngineProblem
    /\ benchmark = Benchmark(1, default_soft_penalty,
                             default_classes_per_day_pref,
                             ViolationsAdder(default_costs))
    /\ threads \in [Threads -> {[pc |-> "reset", value |-> value,
                                 cost |-> None] :
                                    value \in ThreadValues(problem)}]
    /\ evaluation = NoEvaluation
    /\ codec = NoCall
    /\ IdleHall
    /\ IdleVary
    /\ IdleInit
    /\ IdleInsert
    /\ IdleEngine
    /\ IdlePc

\* self.adder.reset_violation_attrs() of call t
Reset(t) ==
    /\ threads[t].pc = "reset"
    /\ benchmark' = [benchmark EXCEPT !.adder = reset_violation_attrs(@)]
    /\ threads' = [threads EXCEPT ![t].pc = "count"]
    /\ UNCHANGED <<problem, codec, evaluation, hallVars, varyVars,
                   construction, insertVars, engineVars, pcVars>>

\* the loops of call t and its count_classes_per_day
Count(t) ==
    /\ threads[t].pc = "count"
    /\ \E r \in {count_violations(benchmark, problem, threads[t].value)} :
        /\ benchmark' = r.bench
        /\ threads' = [threads EXCEPT
                         ![t].pc = IF r.raised = "none" THEN "sum"
                                   ELSE r.raised]
    /\ UNCHANGED <<problem, codec, evaluation, hallVars, varyVars,
                   construction, insertVars, engineVars, pcVars>>

\* overall_cost = self.adder.sum_violations() of call t, and its return
Sum(t) ==
    /\ threads[t].pc = "sum"
    /\ threads' = [threads EXCEPT ![t].pc = "done",
                                  ![t].cost = sum_violations(benchmark.adder)]
    /\ UNCHANGED <<problem, codec, costVars, hallVars, varyVars,
                   construction, insertVars, engineVars, pcVars>>

NextThreads == \E t \in Threads : Reset(t) \/ Count(t) \/ Sum(t)

SpecThreads == InitThreads /\ [][NextThreads]_vars

\* C15 as stated: each of two interleaved evaluations on one evaluator
\* returns the cost its bit string has when it is evaluated alone.
C15_InterleavedCostsAreIsolated ==
    \A t \in DOMAIN threads :
        threads[t].pc = "done" =>
            threads[t].cost =
                calculate_cost(benchmark, problem, threads[t].value).cost

(***************************************************************************)
(* The evaluation step of a run.                                           *)
(***************************************************************************)
\* C21: after the evaluation of the initial population and of every
\* generation's offspring no evaluated individual is without a cost, every
\* individual has the bit string it had before at the same position, an
\* individual that had a cost is unchanged, and every individual handed to
\* fame_hall.update has a cost.
C21_EvaluationCompletesCosts ==
    /\ Len(engine.evaluated) = Len(engine.unevaluated)
    /\ \A k \in DOMAIN engine.evaluated :
        /\ engine.evaluated[k][2] # None
        /\ engine.evaluated[k][1] = engine.unevaluated[k][1]
        /\ engine.unevaluated[k][2] # None =>
            engine.evaluated[k] = engine.unevaluated[k]
    /\ pc = "merge" =>
        /\ engine.offspring = engine.evaluated
        /\ \A k \in DOMAIN engine.offspring : engine.offspring[k][2] # None
        /\ \A k \in DOMAIN fame_hall.members :
            fame_hall.members[k][2] # None

\* offspring about to be merged in which an individual that kept its cost
\* stands before one that was evaluated in this generation
C21_Witness ==
    /\ pc = "merge"
    /\ \E j, k \in DOMAIN engine.evaluated :
        /\ j < k
        /\ engine.unevaluated[j][2] # None
        /\ engine.unevaluated[k][2] = None
        /\ engine.evaluated[k][2] # None
        /\ engine.evaluated[k][2] # engine.evaluated[j][2]

\* the individuals a run holds: population, offspring, archive members and
\* the archive's best individual
HeldIndividuals ==
    Elems(engine.population) \cup Elems(engine.offspring)
        \cup Elems(fame_hall.members)
        \cup (IF fame_hall.best = <<>> THEN {} ELSE {fame_hall.best})

\* C29: a cost an individual of the population, the offspring or the archive
\* holds is the cost calculate_cost gives its bit string, and every
\* individual cross_uni or mut_zeros returned is without a cost until the
\* evaluation, whether a bit changed or not.
C29_CachedCostsAreCurrent ==
    /\ \A ind \in HeldIndividuals :
        ind[2] # None =>
            ind[2] = calculate_cost(benchmark, problem, ind[1]).cost
    /\ pc = "evaluate" =>
        \A k \in engine.varied : engine.offspring[k][2] = None

\* offspring before their evaluation: a mutated individual with the bit
\* string it had, next to an individual that keeps a cost other than zero
C29_Witness ==
    /\ pc = "evaluate"
    /\ solution.crossover_proba = 0
    /\ \E j, k \in DOMAIN engine.offspring :
        /\ k \in engine.varied
        /\ j \notin engine.varied
        /\ engine.offspring[k][2] = None
        /\ engine.offspring[j] = <<engine.offspring[k][1], 1>>

(***************************************************************************)
(* The block mutation over the chunks of an individual.                    *)
(***************************************************************************)
\* the first bit of every chunk of segment_length * classes_per_day bits
ChunkStarts(sol, value) == RangeStep(0, Len(value), sol._mut_range_step)

\* C22 as stated: with mut_indep_proba = 1, mut_zeros visits every chunk of
\* segment_length * classes_per_day bits of the bit string, takes one draw
\* r_k for chunk k and zeroes the segment_length * (r_k div 2) bits from the
\* first bit of that chunk; every other bit is unchanged.
C22_EveryChunkIsMutated ==
    (vary.call = "mut_zeros" /\ solution.mut_indep_proba = ProbaScale) =>
        /\ MutIndices(solution, vary.individs[1])
             = ChunkStarts(solution, vary.individs[1][1])
        /\ vary.result[1][1]
             = MutLoop(solution, problem, vary.individs[1][1],
                       ChunkStarts(solution, vary.individs[1][1]),
                       vary.draws, 1)

(***************************************************************************)
(* The counts of the evaluator after one call of calculate_cost.           *)
(***************************************************************************)
\* a classroom of the lecture range with a type other than lecture, or of
\* the practice range with a type other than practice
ClassroomTypeMismatch(p, class_tuple) ==
    \/ /\ class_tuple[1] \in Elems(p.lecture_classrooms)
       /\ class_tuple[3] # lecture_int_code
    \/ /\ class_tuple[1] \in Elems(p.practice_classrooms)
       /\ class_tuple[3] # practice_int_code

\* the (slot, group) pairs of the groups after the first of a slot
LaterGroups(simult_classes) ==
    {sg \in (DOMAIN simult_classes) \X (2 .. MaxDim + 1) :
        sg[2] \in DOMAIN simult_classes[sg[1]]}

\* C23 as stated: after calculate_cost the classroom_type count is the
\* number of groups after the first of a slot whose class passes the zero
\* check and has a classroom of the lecture range with a non-lecture type or
\* of the practice range with a non-practice type.
C23_ClassroomTypeMismatchIsCounted ==
    evaluation.call = "calculate_cost" =>
        LET simult_classes == collect_simult_classes(problem, LastValue)
        IN  benchmark.adder.counts["classroom_type"]
              = Cardinality(
                  {sg \in LaterGroups(simult_classes) :
                      /\ ~invalid_class_tuple_chars(
                             simult_classes[sg[1]][sg[2]])
                      /\ ClassroomTypeMismatch(
                             problem, simult_classes[sg[1]][sg[2]])})

\* group_valid_classes as the last call of calculate_cost left it for the
\* k-th slot
SlotValidClasses(k) ==
    GroupsLoop([bench |-> [benchmark EXCEPT
                              !.adder = reset_violation_attrs(@)],
                valid |-> <<>>, raised |-> "none"],
               problem, collect_simult_classes(problem, LastValue)[k],
               1).valid

\* the four contradiction kinds of update_valid_classes
ContrKinds ==
    {<<TRUE, FALSE, FALSE>>, <<FALSE, TRUE, FALSE>>, <<FALSE, FALSE, TRUE>>,
     <<TRUE, FALSE, TRUE>>}

\* class_tuple triggers a contradiction kind against the key class_key
Contradicts(class_tuple, class_key) ==
    \E not_pos \in ContrKinds :
        check_contr_cond(
            set_checker_attrs_contrs(_CondChecker, class_tuple, class_key),
            not_pos)

\* C25 as stated: a class registered as a new key after the first of its
\* slot triggers none of the four contradiction kinds against any key
\* registered before it.
C25_ContradictingClassIsNotRegistered ==
    evaluation.call = "calculate_cost" =>
        \A k \in 1 .. problem.classes_per_group :
            \A i, j \in DOMAIN SlotValidClasses(k) :
                i < j => ~Contradicts(SlotValidClasses(k)[j].key,
                                      SlotValidClasses(k)[i].key)

\* the sessions of a day that are held: classroom and teacher both nonzero
RECURSIVE HeldSessions(_)
HeldSessions(day) ==
    IF day = <<>> THEN 0
    ELSE HeldSessions(DelLast(day))
         + (IF day[Len(day)][1] # 0 /\ day[Len(day)][2] # 0 THEN 1 ELSE 0)

\* the (group, week, day) triples of a table of schedules
TableDays(schedules_table) ==
    UNION {UNION {{<<g, w, d>> : d \in DOMAIN schedules_table[g][w]} :
                    w \in DOMAIN schedules_table[g]} :
            g \in DOMAIN schedules_table}

\* C26 as stated: after calculate_cost the classes_per_day count is the
\* number of (group, week, day) triples whose number of held sessions is
\* outside the preferred range; a day inside the range counts nothing.
C26_DaysOutsidePreferenceAreCounted ==
    evaluation.call = "calculate_cost" =>
        LET schedules_table == _wrap_schedules_table(problem, LastValue)
        IN  benchmark.adder.counts["classes_per_day"]
              = Cardinality(
                  {gwd \in TableDays(schedules_table) :
                      HeldSessions(schedules_table[gwd[1]][gwd[2]][gwd[3]])
                          \notin Elems(benchmark.classes_preference)})

(***************************************************************************)
(* One evaluation of a slot shared by three groups.                        *)
(***************************************************************************)
\* constructor arguments: every bit layout of one-class tables of three
\* groups whose individuals have at most MaxLimitLen bits
LimitArgs ==
    {a \in [total_string_len : 1 .. MaxStringLen,
            classroom_char : 0 .. MaxStringLen,
            teacher_char : 0 .. MaxStringLen,
            type_char : 0 .. MaxStringLen,
            total_groups : {3},
            courses : {1},
            directions : {1},
            groups_per_lecture : {4},
            groups_per_practice : {2},
            classes_per_day : {1},
            days_per_week : {1},
            weeks_per_group : {1}] :
        total_schedules_len(a) <= MaxLimitLen}

InitLimit ==
    /\ problem \in Decodable(Constructed(LimitArgs))
    /\ \E hard_penalty \in 1 .. MaxPenalty :
        benchmark = Benchmark(hard_penalty, default_soft_penalty,
                              default_classes_per_day_pref,
                              ViolationsAdder(default_costs))
    /\ \E total_shedules \in RandomSchedules(problem) :
        evaluation = [NoEvaluation EXCEPT !.values = <<total_shedules>>]
    /\ codec = NoCall
    /\ IdleHall
    /\ IdleVary
    /\ IdleInit
    /\ IdleThreads
    /\ IdlePc
    /\ IdleEngine
    /\ IdleInsert

NextLimit == CalculateCost

SpecLimit == InitLimit /\ [][NextLimit]_vars

\* the most groups a class of this type may hold; no cap for other types
WithinGroupCap(p, class_type, parts_num) ==
    /\ class_type = lecture_int_code => parts_num <= p.groups_per_lecture
    /\ class_type = practice_int_code => parts_num <= p.groups_per_practice

\* C24 as stated: no class recorded for a slot holds more groups than the
\* cap of its type (groups_per_lecture, groups_per_practice), and where a
\* slot has more groups of one recorded class that passes the zero check
\* than the cap, group_limit is counted.
C24_GroupCapIsEnforced ==
    evaluation.call = "calculate_cost" =>
        \A k \in 1 .. problem.classes_per_group :
            \A j \in DOMAIN SlotValidClasses(k) :
                LET class == SlotValidClasses(k)[j]
                    same == {g \in DOMAIN collect_simult_classes(
                                              problem, LastValue)[k] :
                                collect_simult_classes(
                                    problem, LastValue)[k][g] = class.key}
                IN  /\ WithinGroupCap(problem, class.key[3], class.parts_num)
                    /\ (/\ ~invalid_class_tuple_chars(class.key)
                        /\ ~WithinGroupCap(problem, class.key[3],
                                           Cardinality(same)))
                         => benchmark.adder.counts["group_limit"] >= 1

(***************************************************************************)
(* The archive over its update calls: the best individual, the number of   *)
(* members and their costs.                                                *)
(***************************************************************************)
\* C27 as stated: after an update call on an archive of capacity >= 1 the
\* best individual costs no more than the candidate passed to the call,
\* also when the archive held a single member.
C27_BestNoWorseThanCandidates ==
    (insertion.call = "update" /\ fame_hall.size >= 1) =>
        fame_hall.best[2] <= insertion.individ[2]

\* C28 as stated: from one update call to the next the cost of the best
\* individual never increases and the number of members never decreases.
C28_BestAndSizeAreMonotone ==
    [][/\ Len(fame_hall'.members) >= Len(fame_hall.members)
       /\ fame_hall.best # <<>> => fame_hall'.best[2] <= fame_hall.best[2]]_vars

\* C28 for archives that can hold a member: with capacity >= 1 the cost of
\* the best individual never increases from one update call to the next and
\* the number of members never decreases.
C28_MonotoneWithCapacity ==
    [][fame_hall.size >= 1 =>
        /\ Len(fame_hall'.members) >= Len(fame_hall.members)
        /\ fame_hall.best # <<>> =>
                fame_hall'.best[2] <= fame_hall.best[2]]_vars

\* a full archive whose best individual was replaced by a cheaper one and
\* whose tail member was evicted
C28_Witness ==
    /\ fame_hall.size >= 1
    /\ Len(fame_hall.members) = fame_hall.size
    /\ hall_log.front
    /\ hall_log.evicted
    /\ fame_hall.best[2] < fame_hall.members[Len(fame_hall.members)][2]

\* C30 as stated: after any sequence of update calls that started from an
\* empty archive, no two members have the same cost.
C30_MemberCostsAreDistinct ==
    \A i, j \in DOMAIN fame_hall.members :
        i # j => fame_hall.members[i][2] # fame_hall.members[j][2]
====
